---- MODULE Spec2Model ----
(***************************************************************************)
(* Model of src/components/Footer.jsx: the class component Footer, whose   *)
(* only method render() returns a literal JSX tree.                        *)
(*                                                                         *)
(* The JSX of lines 8-11 is modelled as written (elements, attributes and  *)
(* the raw text between the tags, line breaks and indentation included)    *)
(* and is turned into the element tree the way the JSX transform does it:  *)
(* text children are cleaned line by line, children that clean to the      *)
(* empty string are dropped, and each element becomes                      *)
(* createElement(type, props, children).                                   *)
(*                                                                         *)
(* Instances live in slots of the host tree.  The host constructs an       *)
(* instance with props, calls render(), commits the returned tree, may     *)
(* hand the instance new props, may call the inherited setState, and       *)
(* unmounts it.                                                            *)
(***************************************************************************)
EXTENDS Integers, Sequences, FiniteSets, TLC

VARIABLES inst, out, dom, returned, external

vars == <<inst, out, dom, returned, external>>

(* ---------------------------------------------------------------- bounds *)

\* number of slots of the host tree that can hold a Footer instance
NumInstances == 2

\* render() invocations followed per instance
MaxCalls == 2

Slots == 1..NumInstances

(* ------------------------------------------------------------- JS values *)

Undefined == [t |-> "undefined"]

Obj(fields) == [t |-> "object", fields |-> fields]

Has(v, name) == v.t = "object" /\ name \in DOMAIN v.fields

\* props values the host passes to the constructor (none at all included)
PropsValues ==
    { Undefined,
      Obj(<<>>),
      Obj([children |-> "Hello"]),
      Obj([className |-> "text-left", href |-> "https://example.org",
           text |-> "SITE BY Somebody"]) }

\* state values a caller can hand to the inherited setState
StateValues == { Obj([open |-> TRUE]) }

(* -------------------------------------------------------- JSX, as written *)

\* one source line of JSX text: lead/trail count its blanks, body is the rest
Line(lead, body, trail) == [lead |-> lead, body |-> body, trail |-> trail]

JSXText(lines) == [kind |-> "JSXText", lines |-> lines]

JSXElement(name, attrs, children) ==
    [kind |-> "JSXElement", name |-> name, attrs |-> attrs, children |-> children]

\* the line break after a tag and the indentation of the next line
Indent(n) == JSXText(<<Line(0, "", 0), Line(n, "", 0)>>)

\* line 10: the text inside <small>
LinkText == JSXText(<<Line(0, "SITE BY Leprechaun Design", 0)>>)

\* line 10: <small>...</small>
Small == JSXElement("small", <<>>, <<LinkText>>)

\* the link with the scheme mistyped
AnchorWrongTarget ==
    JSXElement("a", [href |-> "http://humblepage.com", className |-> "footer-link"],
               <<Small>>)

\* the link without its styling class
AnchorNoClass ==
    JSXElement("a", [href |-> "https://humblepage.com"], <<Small>>)

\* the link opening in a new tab
AnchorNewTab ==
    JSXElement("a", [href |-> "https://humblepage.com", className |-> "footer-link",
                     target |-> "_blank"],
               <<Small>>)

\* line 10: <a href=... className=...>...</a>
Anchor ==
    JSXElement("a", [href |-> "https://humblepage.com", className |-> "footer-link"],
               <<Small>>)

\* line 9: <hr/>
Divider == JSXElement("hr", <<>>, <<>>)

\* the divider and the link written on one line: <hr/> <a ...>
ContainerOneLine ==
    JSXElement("div", [className |-> "text-center mt-5 mb-3"],
               <<Indent(16), Divider, JSXText(<<Line(1, "", 0)>>), Anchor, Indent(12)>>)

\* the link written above the divider
ContainerLinkFirst ==
    JSXElement("div", [className |-> "text-center mt-5 mb-3"],
               <<Indent(16), Anchor, Indent(16), Divider, Indent(12)>>)

\* lines 8-11: <div className=...> <hr/> <a/> </div>, each child on its own line
Container ==
    JSXElement("div", [className |-> "text-center mt-5 mb-3"],
               <<Indent(16), Divider, Indent(16), Anchor, Indent(12)>>)

(* ------------------------------------------------- JSX, as it is evaluated *)

RECURSIVE Spaces(_)
Spaces(n) == IF n = 0 THEN "" ELSE " " \o Spaces(n - 1)

\* index of the last line holding something other than blanks, the first
\* line if there is none
RECURSIVE LastNonEmptyLine(_, _)
LastNonEmptyLine(lines, i) ==
    IF i <= 1 THEN 1
    ELSE IF lines[i].body # "" THEN i
    ELSE LastNonEmptyLine(lines, i - 1)

\* one line of a JSX text: leading blanks go unless it is the first line,
\* trailing blanks go unless it is the last line; a line of blanks only
\* survives if it is both
TrimLine(lines, i) ==
    IF lines[i].body = ""
    THEN IF i = 1 /\ i = Len(lines)
         THEN Spaces(lines[i].lead + lines[i].trail)
         ELSE ""
    ELSE (IF i = 1 THEN Spaces(lines[i].lead) ELSE "")
           \o lines[i].body
           \o (IF i = Len(lines) THEN Spaces(lines[i].trail) ELSE "")

\* the string a JSX text stands for: the lines that are not empty after
\* trimming, joined by one blank
RECURSIVE CleanFrom(_, _)
CleanFrom(lines, i) ==
    IF i > Len(lines) THEN ""
    ELSE LET trimmed == TrimLine(lines, i)
         IN  (IF trimmed = "" THEN ""
              ELSE IF i = LastNonEmptyLine(lines, Len(lines)) THEN trimmed
              ELSE trimmed \o " ")
               \o CleanFrom(lines, i + 1)

CleanJSXText(lines) == CleanFrom(lines, 1)

TextNode(s) == [type |-> "#text", value |-> s]

\* the element object: props.children is kept apart as the sequence children
createElement(type, props, children) ==
    [type |-> type, props |-> props, children |-> children]

\* a JSX node as the value it evaluates to; text that cleans to the empty
\* string yields no child
RECURSIVE Eval(_)
RECURSIVE EvalChildren(_, _)
EvalChildren(cs, i) ==
    IF i > Len(cs) THEN <<>>
    ELSE IF cs[i].kind = "JSXText"
         THEN LET s == CleanJSXText(cs[i].lines)
              IN  (IF s = "" THEN <<>> ELSE <<TextNode(s)>>) \o EvalChildren(cs, i + 1)
         ELSE <<Eval(cs[i])>> \o EvalChildren(cs, i + 1)

Eval(node) == createElement(node.name, node.attrs, EvalChildren(node.children, 1))

(* ----------------------------------------------------------- completions *)

Return(v) == [kind |-> "return", value |-> v]

Throw(e) == [kind |-> "throw", error |-> e]

None == [kind |-> "none"]

(* ---------------------------------------------------------------- Footer *)

\* what render() can reach through `this`
This(i) == [props |-> inst[i].props, state |-> inst[i].state]

\* render() that takes the props apart first: reading a property of an
\* undefined props value is a TypeError
renderStrict(this) ==
    IF this.props = Undefined THEN Throw("TypeError") ELSE Return(Eval(Container))

\* render() that lets the props override the class, the target and the text
renderForwarding(this) ==
    LET p == this.props
        cls == IF Has(p, "className") THEN p.fields.className
               ELSE "text-center mt-5 mb-3"
        url == IF Has(p, "href") THEN p.fields.href ELSE "https://humblepage.com"
        txt == IF Has(p, "text") THEN p.fields.text ELSE "SITE BY Leprechaun Design"
    IN  Return(Eval(
            JSXElement("div", [className |-> cls],
                <<Indent(16), Divider, Indent(16),
                  JSXElement("a", [href |-> url, className |-> "footer-link"],
                      <<JSXElement("small", <<>>, <<JSXText(<<Line(0, txt, 0)>>)>>)>>),
                  Indent(12)>>)))

\* lines 6-13: render() returns the tree of lines 8-11 and reads nothing of this
render(this) == Return(Eval(Container))

Blank == [status |-> "none", props |-> Undefined, state |-> Undefined, calls |-> 0]

\* the host's call of render() on the instance in slot i, completing with c
Rendered(i, c) ==
    /\ out' = [out EXCEPT ![i] = c]
    /\ returned' = returned \cup {c}
    /\ inst' = [inst EXCEPT ![i].calls = @ + 1,
                            ![i].status = IF c.kind = "return" THEN "rendered"
                                          ELSE "failed"]

CanRender(i) ==
    /\ inst[i].status \in {"constructed", "mounted"}
    /\ inst[i].calls < MaxCalls

\* render() that stamps the tree with the number of the render
RenderCounting(i) ==
    /\ CanRender(i)
    /\ Rendered(i, Return(createElement("div",
                              [className |-> "text-center mt-5 mb-3",
                               key |-> inst[i].calls],
                              Eval(Container).children)))
    /\ UNCHANGED <<dom, external>>

\* render() that records that it ran in the instance's state
RenderSetsState(i) ==
    /\ CanRender(i)
    /\ out' = [out EXCEPT ![i] = render(This(i))]
    /\ returned' = returned \cup {render(This(i))}
    /\ inst' = [inst EXCEPT ![i].calls = @ + 1,
                            ![i].status = "rendered",
                            ![i].state = Obj([open |-> TRUE])]
    /\ UNCHANGED <<dom, external>>

\* render() that keeps its tree in a variable of the module, which every
\* instance shares: the tree of the last render replaces what the others show
RenderShared(i) ==
    /\ CanRender(i)
    /\ Rendered(i, render(This(i)))
    /\ dom' = [j \in Slots |-> IF dom[j] = None THEN None
                               ELSE createElement("div", <<>>, <<>>)]
    /\ UNCHANGED external

\* lines 6-13, called by the host on a constructed or mounted instance
Render(i) ==
    /\ CanRender(i)
    /\ Rendered(i, render(This(i)))
    /\ UNCHANGED <<dom, external>>

\* line 4: Footer declares no constructor, so new Footer(p) is the base
\* class's: it keeps p as this.props and sets no state
Construct(i, p) ==
    /\ inst[i].status = "none"
    /\ inst' = [inst EXCEPT ![i] = [Blank EXCEPT !.status = "constructed",
                                                 !.props = p]]
    /\ UNCHANGED <<out, dom, returned, external>>

\* the host puts the tree render() returned into the document
Commit(i) ==
    /\ inst[i].status = "rendered"
    /\ dom' = [dom EXCEPT ![i] = out[i].value]
    /\ inst' = [inst EXCEPT ![i].status = "mounted"]
    /\ UNCHANGED <<out, returned, external>>

\* the parent renders again and hands the mounted instance new props
ReceiveProps(i, p) ==
    /\ inst[i].status = "mounted"
    /\ p # inst[i].props
    /\ inst' = [inst EXCEPT ![i].props = p]
    /\ UNCHANGED <<out, dom, returned, external>>

\* the setState Footer inherits, called on a mounted instance
SetState(i, s) ==
    /\ inst[i].status = "mounted"
    /\ s # inst[i].state
    /\ inst' = [inst EXCEPT ![i].state = s]
    /\ UNCHANGED <<out, dom, returned, external>>

\* the host removes the instance (after a render that threw as well) and
\* drops what it rendered
Unmount(i) ==
    /\ inst[i].status \in {"mounted", "failed"}
    /\ inst' = [inst EXCEPT ![i] = Blank]
    /\ dom' = [dom EXCEPT ![i] = None]
    /\ out' = [out EXCEPT ![i] = None]
    /\ UNCHANGED <<returned, external>>

\* the module declares no variable besides the class, and the class touches
\* neither the network nor storage
NoExternal == [network |-> <<>>, storage |-> <<>>, module |-> <<>>]

Init ==
    /\ inst = [i \in Slots |-> Blank]
    /\ out = [i \in Slots |-> None]
    /\ dom = [i \in Slots |-> None]
    /\ returned = {}
    /\ external = NoExternal

Next ==
    \/ \E i \in Slots, p \in PropsValues : Construct(i, p)
    \/ \E i \in Slots : Render(i)
    \/ \E i \in Slots : Commit(i)
    \/ \E i \in Slots, p \in PropsValues : ReceiveProps(i, p)
    \/ \E i \in Slots, s \in StateValues : SetState(i, s)
    \/ \E i \in Slots : Unmount(i)

Spec == Init /\ [][Next]_vars

(* ------------------------------------------------ reading a returned tree *)

IsText(n) == n.type = "#text"

\* the nodes of a tree in document order
RECURSIVE Preorder(_)
RECURSIVE PreorderAll(_, _)
PreorderAll(cs, i) ==
    IF i > Len(cs) THEN <<>> ELSE Preorder(cs[i]) \o PreorderAll(cs, i + 1)

Preorder(n) == IF IsText(n) THEN <<n>> ELSE <<n>> \o PreorderAll(n.children, 1)

\* where the nodes of type t stand in document order
Places(tree, t) == { k \in DOMAIN Preorder(tree) : Preorder(tree)[k].type = t }

\* the elements of type t
Elements(tree, t) == { Preorder(tree)[k] : k \in Places(tree, t) }

\* the text beneath a node: its text nodes, concatenated in document order
RECURSIVE Concat(_, _)
Concat(ns, i) ==
    IF i > Len(ns) THEN ""
    ELSE (IF IsText(ns[i]) THEN ns[i].value ELSE "") \o Concat(ns, i + 1)

TextContent(n) == Concat(Preorder(n), 1)

NumTextNodes(n) == Cardinality(Places(n, "#text"))

\* an attribute of an element, "(absent)" if the element does not carry it
Attr(n, name) == IF name \in DOMAIN n.props THEN n.props[name] ELSE "(absent)"

\* the trees render() has returned so far
Trees == { c.value : c \in { r \in returned : r.kind = "return" } }

\* the values a props object carries
PropValues(p) == IF p.t = "object" THEN { p.fields[f] : f \in DOMAIN p.fields } ELSE {}

\* the attribute values and texts a tree carries
TreeValues(tree) ==
    UNION { IF IsText(Preorder(tree)[k]) THEN { Preorder(tree)[k].value }
            ELSE { Preorder(tree)[k].props[a] : a \in DOMAIN Preorder(tree)[k].props }
            : k \in DOMAIN Preorder(tree) }

JustRendered(i) == inst[i].status = "rendered"

\* the step is a call of render() on the instance in slot i
RenderStep(i) == inst[i].status # "rendered" /\ inst'[i].status \in {"rendered", "failed"}

\* what the host and the user can observe of slot i
Observed(i) == <<inst[i], out[i], dom[i]>>

(* ---------------------------------------------------------------- claims *)

\* C1: render() is deterministic: every invocation so far, on whichever
\* instance and however often on the same one, completed with the same tree.
C1_Deterministic == Cardinality(returned) <= 1

\* one instance rendered twice while another instance rendered as well
C1_Witness ==
    \E i, j \in Slots :
        /\ i # j
        /\ inst[i].calls = 2
        /\ out[i] # None
        /\ inst[j].calls >= 1
        /\ out[j] # None

\* C2: a returned tree holds exactly one anchor element, and that anchor's
\* href is exactly https://humblepage.com.
C2_OneLink ==
    \A tree \in Trees :
        /\ Cardinality(Places(tree, "a")) = 1
        /\ \A a \in Elements(tree, "a") : Attr(a, "href") = "https://humblepage.com"

\* a render has returned a tree with an anchor in it
C2_Witness == \E tree \in Trees : Places(tree, "a") # {}

\* C3: the text beneath the anchor is exactly "SITE BY Leprechaun Design" and
\* the tree holds no text outside the anchor.
C3_LinkText ==
    \A tree \in Trees :
        /\ \A a \in Elements(tree, "a") : TextContent(a) = "SITE BY Leprechaun Design"
        /\ \A a \in Elements(tree, "a") : NumTextNodes(a) = NumTextNodes(tree)
        /\ TextContent(tree) = "SITE BY Leprechaun Design"

\* a render has returned a tree with text in it
C3_Witness == \E tree \in Trees : NumTextNodes(tree) >= 1

\* C4: a returned tree holds exactly one hr element, and the hr is an earlier
\* sibling of the anchor under the same parent.
C4_DividerFirst ==
    \A tree \in Trees :
        /\ Cardinality(Places(tree, "hr")) = 1
        /\ \A h \in Places(tree, "hr") : \A a \in Places(tree, "a") : h < a
        /\ \E k \in DOMAIN Preorder(tree) :
              LET parent == Preorder(tree)[k]
              IN  /\ ~IsText(parent)
                  /\ \E x, y \in DOMAIN parent.children :
                        /\ x < y
                        /\ parent.children[x].type = "hr"
                        /\ parent.children[y].type = "a"

\* a render has returned a tree with a divider and an anchor in it
C4_Witness == \E tree \in Trees : Places(tree, "hr") # {} /\ Places(tree, "a") # {}

\* C5: render() never ends in an error: whatever props the instance was
\* given, none included, every call completes by returning a tree.
C5_NeverThrows ==
    /\ \A c \in returned : c.kind = "return"
    /\ \A i \in Slots : inst[i].status # "failed"
    /\ \A i \in Slots : out[i] # None => out[i].kind = "return"

\* an instance constructed without props has been rendered
C5_Witness ==
    \E i \in Slots :
        /\ inst[i].props = Undefined
        /\ JustRendered(i)
        /\ out[i].kind = "return"

\* C6: the root of a returned tree is a div of class "text-center mt-5 mb-3",
\* the anchor to https://humblepage.com has class "footer-link", and what a
\* test harness finds in the document after mounting is that link, with that
\* class, after a divider.
HarnessAssert(tree) ==
    \E a \in Places(tree, "a") :
        /\ Attr(Preorder(tree)[a], "href") = "https://humblepage.com"
        /\ Attr(Preorder(tree)[a], "className") = "footer-link"
        /\ \E h \in Places(tree, "hr") : h < a

C6_Classes ==
    /\ \A tree \in Trees :
          /\ tree.type = "div"
          /\ Attr(tree, "className") = "text-center mt-5 mb-3"
          /\ \A a \in Elements(tree, "a") :
                Attr(a, "href") = "https://humblepage.com"
                    => Attr(a, "className") = "footer-link"
    /\ \A i \in Slots :
          inst[i].status = "mounted" => dom[i] # None /\ HarnessAssert(dom[i])

\* an instance is mounted and its tree is in the document
C6_Witness == \E i \in Slots : inst[i].status = "mounted" /\ dom[i] # None

\* C7: instances do not interfere: a step changes what is observed of at most
\* one slot, whatever the others are doing, and all the instances in the
\* document show the same tree.
C7_Independent ==
    /\ [](\A i, j \in Slots : dom[i] # None /\ dom[j] # None => dom[i] = dom[j])
    /\ [][\A i, j \in Slots :
             i # j /\ Observed(i)' # Observed(i) => Observed(j)' = Observed(j)]_vars
    /\ [][external' = external]_vars

\* one instance has just been rendered while another one is mounted
C7_Witness ==
    \E i, j \in Slots :
        /\ i # j
        /\ JustRendered(i)
        /\ inst[j].status = "mounted"
        /\ dom[j] # None

\* C8: render() has no side effect: a call leaves the instance's props and
\* state, every other slot, the document and everything outside the
\* component as they were; only the value it returned is new.
C8_NoSideEffects ==
    [][\A i \in Slots :
          RenderStep(i) =>
              /\ inst'[i].props = inst[i].props
              /\ inst'[i].state = inst[i].state
              /\ \A j \in Slots \ {i} : Observed(j)' = Observed(j)
              /\ dom' = dom
              /\ external' = external]_vars

\* an instance holding props and state has just been rendered, with another
\* instance mounted
C8_Witness ==
    \E i, j \in Slots :
        /\ i # j
        /\ JustRendered(i)
        /\ inst[i].props \notin {Undefined, Obj(<<>>)}
        /\ inst[i].state # Undefined
        /\ inst[j].status = "mounted"

\* C9: the output does not depend on the inputs: two instances that have just
\* been rendered with different props or state got the same tree, and no
\* value of the props appears anywhere in the tree.
C9_InputIndependent ==
    /\ \A i, j \in Slots :
          JustRendered(i) /\ JustRendered(j) /\ This(i) # This(j) => out[i] = out[j]
    /\ \A i \in Slots :
          JustRendered(i) =>
              PropValues(inst[i].props) \cap TreeValues(out[i].value) = {}

\* two instances with different props, one of them naming a class, a target
\* and a text, have just been rendered
C9_Witness ==
    \E i, j \in Slots :
        /\ JustRendered(i)
        /\ JustRendered(j)
        /\ inst[i].props # inst[j].props
        /\ Has(inst[i].props, "href")
        /\ inst[i].state # inst[j].state

\* C10: a returned tree is exactly div[hr, a[small[text]]]: the div has two
\* children, the hr has neither attributes nor children, the anchor carries
\* href and className and nothing else, its one child is a small element
\* without attributes whose one child is the text node.
C10_ExactShape ==
    \A tree \in Trees :
        /\ tree.type = "div"
        /\ Len(tree.children) = 2
        /\ tree.children[1] = [type |-> "hr", props |-> <<>>, children |-> <<>>]
        /\ tree.children[2].type = "a"
        /\ DOMAIN tree.children[2].props = {"href", "className"}
        /\ Len(tree.children[2].children) = 1
        /\ tree.children[2].children[1].type = "small"
        /\ DOMAIN tree.children[2].children[1].props = {}
        /\ Len(tree.children[2].children[1].children) = 1
        /\ IsText(tree.children[2].children[1].children[1])

\* a render has returned a tree whose root has children
C10_Witness == \E tree \in Trees : Len(tree.children) >= 1

====
